---- MODULE Spec2Model ----
(***************************************************************************)
(* A model of the stress-monitoring dashboard: the synthetic heart-rate    *)
(* simulator (data_simulator.py), the simulated stress estimator           *)
(* (stress_predictor.py) and the per-worker sample buffer (dashboard.py).  *)
(*                                                                         *)
(* Conventions.                                                            *)
(*  - time.time() is the variable clock, read in whole seconds; a tick     *)
(*    issued without the clock having advanced is a back-to-back call.     *)
(*  - random draws are inputs of the actions, drawn with \E; SpecRng       *)
(*    takes them from the process-wide generator instead.                  *)
(*  - probabilities are fixed-point numbers in thousandths.                *)
(***************************************************************************)
EXTENDS Integers, Sequences, FiniteSets, TLC

\* ------------------------------------------------------------ config.py

HrBaseMin == 70
HrBaseMax == 90
HrStressMin == 90
HrStressMax == 130
NoiseLevel == 5
\* stress_probability 0.15, in thousandths
StressProbability == 150
StressDurationMin == 5
StressDurationMax == 20
NormalOffsetMin == -5
NormalOffsetMax == 10
HrFloor == 50
HrCeil == 150
RateLimit == 10

hr_base_range == HrBaseMin..HrBaseMax
hr_stress_range == HrStressMin..HrStressMax
stress_duration == StressDurationMin..StressDurationMax

WORKERS == {"worker_1", "worker_2", "worker_3", "worker_4"}

\* ------------------------------------------------------------ bounds

\* The clock stops advancing once it has reached MaxClock (ticks may still
\* be issued).
MaxClock == 22
\* The caller of the single-simulator specifications lets ClockJump seconds
\* pass between two ticks, or none.
ClockJump == 21
\* The durations sampled are the first DurationWidth values of the
\* configured range and its last value.
DurationWidth == 2
\* The estimator's draws and thresholds lie on grids: the uniform jitter in
\* steps of JitterStep, the Gaussian noise in steps of GaussStep up to
\* GaussMax either way, the thresholds in steps of ThresholdStep.
JitterStep == 50
GaussStep == 300
GaussMax == 1200
ThresholdStep == 250
\* The dashboard makes at most MaxPasses simulation passes and MaxUploads
\* uploads beyond the passes it starts with.
MaxPasses == 2
MaxUploads == 1
\* The simulation is started at most MaxStarts times and its loops begin at
\* most MaxLoopTicks iterations in all.
MaxStarts == 2
MaxLoopTicks == 2
\* In SpecTicks the clock advances second by second up to MaxSeconds.
MaxSeconds == 8

\* The seeded generator repeats after StreamLen raw values, each a multiple
\* of RawStep thousandths, and is consulted at most MaxDraws times.
StreamLen == 3
RawStep == 333
MaxDraws == 8

\* An uploaded table has at most MaxRows rows, its timestamps denote the
\* instants 1..MaxStamp.
MaxRows == 2
MaxStamp == 2

\* A batch holds at most MaxBatch heart rates.
MaxBatch == 2

\* ------------------------------------------------------------ state

VARIABLES
    clock,          \* time.time(), whole seconds
    workers,        \* simulator id -> WorkerDataSimulator (its fields)
    ticks_since,    \* history: ticks issued to a simulator since it last
                    \* entered the stress regime (capped)
    est_call,       \* predict_stress_single's arguments [hr_value, threshold]
                    \* (threshold optional), once called
    est_return,     \* the pair [result, error] the call returned (each
                    \* optional), once returned
    session,        \* st.session_state: worker_data (worker -> list of
                    \* samples) and alert_states (worker -> flag)
    appended,       \* history: the samples passed to update_worker_data for
                    \* a worker since its buffer was last emptied
    passes,         \* history: simulation passes made
    uploads,        \* history: CSV uploads made
    is_running,     \* MultiWorkerSimulator.is_running
    data_callback,  \* MultiWorkerSimulator.data_callback (optional)
    thread,         \* MultiWorkerSimulator.thread (optional): the id of the
                    \* thread last started
    threads,        \* the loop threads started, in order: each its position
                    \* in _simulation_loop and its locals
    ctl,            \* the controlling thread: "idle", or "join" inside
                    \* stop_simulation
    stop_returned,  \* history: stop_simulation has returned and
                    \* start_simulation was not called since
    delivered,      \* history: the mappings passed to the callback
    loop_ticks,     \* history: loop iterations begun
    rng_stream,     \* the process-wide random generator: the raw values its
                    \* seed makes it produce, in thousandths
    rng_pos,        \* the process-wide random generator: raw values consumed
    uploaded_file,  \* the table handed to process_uploaded_csv (optional)
    csv_return      \* the pair process_uploaded_csv returned (optional)

simVars == <<clock, workers, ticks_since>>
estVars == <<est_call, est_return>>
bufVars == <<session, appended, passes, uploads>>
loopVars == <<is_running, data_callback, thread, threads, ctl, stop_returned,
              delivered, loop_ticks>>
rngVars == <<rng_stream, rng_pos>>
csvVars == <<uploaded_file, csv_return>>
vars == <<simVars, estVars, bufVars, loopVars, rngVars, csvVars>>

\* An optional value: None, or Some(x).
None == <<>>

Some(x) == <<x>>

Sims == DOMAIN workers

\* ------------------------------------------------------------ helpers

Abs(x) == IF x < 0 THEN -x ELSE x

Max2(a, b) == IF a >= b THEN a ELSE b

Min2(a, b) == IF a <= b THEN a ELSE b

\* int(x) of the real number num/10: truncation toward zero.
IntTenths(num) == IF num >= 0 THEN num \div 10 ELSE -((-num) \div 10)

\* max(50, min(150, int(x))), x given in tenths.
ClampHR(tenths) == Max2(HrFloor, Min2(HrCeil, IntTenths(tenths)))

\* NextHR with the step taken away from the target and the range limit of
\* line 68 missing.
NextHR_Drift(cur, target_hr) ==
    LET diff == target_hr - cur
    IN  IF Abs(diff) > RateLimit
        THEN IntTenths(10 * cur - 3 * diff)
        ELSE IntTenths(10 * target_hr)

\* NextHR with the step truncated before it is added: int(diff * 0.3).
NextHR_TruncStep(cur, target_hr) ==
    LET diff == target_hr - cur
    IN  IF Abs(diff) > RateLimit
        THEN ClampHR(10 * (cur + IntTenths(3 * diff)))
        ELSE ClampHR(10 * target_hr)

\* NextHR with the step taken from a difference of 10 on.
NextHR_StepAtLimit(cur, target_hr) ==
    LET diff == target_hr - cur
    IN  IF Abs(diff) >= RateLimit
        THEN ClampHR(10 * cur + 3 * diff)
        ELSE ClampHR(10 * target_hr)

\* NextHR with a step of 130% of the difference.
NextHR_Overshoot(cur, target_hr) ==
    LET diff == target_hr - cur
    IN  IF Abs(diff) > RateLimit
        THEN ClampHR(10 * cur + 13 * diff)
        ELSE ClampHR(10 * target_hr)

\* Lines 61-68: the heart rate after a tick whose noisy target is target_hr.
\* current_hr + diff * 0.3 is (10*cur + 3*diff)/10.
NextHR(cur, target_hr) ==
    LET diff == target_hr - cur
    IN  IF Abs(diff) > RateLimit
        THEN ClampHR(10 * cur + 3 * diff)
        ELSE ClampHR(10 * target_hr)

\* Lines 47-58: the noisy targets a tick can draw in regime s.
NoisyTargets(b, s) ==
    LET noise == (-NoiseLevel)..NoiseLevel
        draws == IF s = "normal"
                 THEN {b + o : o \in NormalOffsetMin..NormalOffsetMax}
                 ELSE hr_stress_range
    IN  {t + n : t \in draws, n \in noise}

\* NextRegime with the duration cleared when the stress regime is left.
NextRegime_ResetDuration(sim, now, trigger, d) ==
    IF sim.current_state = "normal"
    THEN IF trigger
         THEN [sim EXCEPT !.current_state = "stress",
                          !.state_start_time = now,
                          !.state_duration = d]
         ELSE sim
    ELSE IF now - sim.state_start_time > sim.state_duration
         THEN [sim EXCEPT !.current_state = "normal",
                          !.state_start_time = now,
                          !.state_duration = 0]
         ELSE sim

\* Lines 33-44: the simulator after the transition check. trigger is the
\* outcome of random.random() < stress_probability, d the sampled duration.
NextRegime(sim, now, trigger, d) ==
    IF sim.current_state = "normal"
    THEN IF trigger
         THEN [sim EXCEPT !.current_state = "stress",
                          !.state_start_time = now,
                          !.state_duration = d]
         ELSE sim
    ELSE IF now - sim.state_start_time > sim.state_duration
         THEN [sim EXCEPT !.current_state = "normal",
                          !.state_start_time = now]
         ELSE sim

\* ------------------------------------------------------------ simulator

\* WorkerDataSimulator.__init__ with base_hr drawn as b at time now.
NewSimulator(b, now) ==
    [base_hr |-> b,
     current_state |-> "normal",
     state_duration |-> 0,
     state_start_time |-> now,
     current_hr |-> b,
     is_stressed |-> FALSE]

\* generate_next_hr with is_stressed set from the regime the tick began in.
generate_next_hr_StaleFlag(sim, now, trigger, d, target_hr) ==
    LET reg == NextRegime(sim, now, trigger, d)
    IN  [reg EXCEPT !.is_stressed = (sim.current_state = "stress"),
                    !.current_hr = NextHR(sim.current_hr, target_hr)]

\* WorkerDataSimulator.generate_next_hr at time now with its draws given:
\* the simulator after the call (the call returns its current_hr).
generate_next_hr(sim, now, trigger, d, target_hr) ==
    LET reg == NextRegime(sim, now, trigger, d)
    IN  [reg EXCEPT !.is_stressed = (reg.current_state = "stress"),
                    !.current_hr = NextHR(sim.current_hr, target_hr)]

\* current_hr kept on the class, one value for all simulators.
AdvanceSimulator_SharedHr(ws, w, now, trigger, d, target_hr) ==
    LET own == generate_next_hr(ws[w], now, trigger, d, target_hr)
    IN  [x \in DOMAIN ws |->
            IF x = w THEN own ELSE [ws[x] EXCEPT !.current_hr = own.current_hr]]

\* simulator.generate_next_hr() on the simulator of worker w (lines 13-26, 113): the
\* fields are the instance's own.
AdvanceSimulator(ws, w, now, trigger, d, target_hr) ==
    [ws EXCEPT ![w] = generate_next_hr(@, now, trigger, d, target_hr)]

\* The draws a tick makes: the trigger only in the normal regime, the
\* duration only when triggered.
TriggerDraws(sim) == IF sim.current_state = "normal" THEN BOOLEAN ELSE {FALSE}

SampledDurations ==
    {d \in stress_duration :
        d < StressDurationMin + DurationWidth \/ d = StressDurationMax}

DurationDraws(trigger) == IF trigger THEN SampledDurations ELSE {0}

TargetDraws(sim, now, trigger, d) ==
    NoisyTargets(sim.base_hr, NextRegime(sim, now, trigger, d).current_state)

\* One call of generate_next_hr on simulator w, any draws.
Tick(w) ==
    \E trigger \in TriggerDraws(workers[w]) :
      \E d \in DurationDraws(trigger) :
        \E target_hr \in TargetDraws(workers[w], clock, trigger, d) :
          workers' = AdvanceSimulator(workers, w, clock, trigger, d, target_hr)

\* ------------------------------------------------------------ estimator
\* stress_predictor.py. Probabilities and thresholds are in thousandths.

default_threshold == 350

\* No call of the estimator is in progress or has returned.
EstIdle ==
    /\ est_call = None
    /\ est_return = None

\* Lines 109-126: the range of the np.random.uniform draw of hr_value's
\* band (none below 60), as its upper end.
UniformHigh(hr_value) ==
    IF hr_value < 60 THEN 0
    ELSE IF hr_value <= 70 THEN 150
    ELSE IF hr_value <= 90 THEN 250
    ELSE IF hr_value <= 110 THEN 300
    ELSE IF hr_value <= 130 THEN 200
    ELSE 150

\* Lines 109-126: base_prob for hr_value with the uniform draw u.
BaseProb(hr_value, u) ==
    IF hr_value < 60 THEN 600 + (60 - hr_value) * 10
    ELSE IF hr_value <= 70 THEN 50 + u
    ELSE IF hr_value <= 90 THEN 100 + u
    ELSE IF hr_value <= 110 THEN 300 + (hr_value - 90) * 15 + u
    ELSE IF hr_value <= 130 THEN 500 + (hr_value - 110) * 20 + u
    ELSE 700 + Min2(250, (hr_value - 130) * 10) + u

\* ClampProb with only the lower limit applied.
ClampProb_NoUpper(p) == Max2(0, p)

\* Line 133: max(0.0, min(1.0, stress_prob)).
ClampProb(p) == Max2(0, Min2(1000, p))

\* _simulate_prediction with its draws given: u the uniform jitter, noise the
\* Gaussian draw. No step of it raises on a number, so the error of the
\* returned pair is None.
_simulate_prediction(hr_value, threshold, u, noise) ==
    LET thr == IF threshold = None THEN default_threshold ELSE threshold[1]
        stress_prob == ClampProb(BaseProb(hr_value, u) + noise)
        is_stress == stress_prob >= thr
    IN  [result |-> Some([hr |-> hr_value,
                          stress_probability |-> stress_prob,
                          is_stress |-> is_stress,
                          threshold |-> thr,
                          status |-> IF is_stress THEN "stress" ELSE "normal"]),
         error |-> None]

\* predict_stress_single with no model loaded (is_loaded is False, as
\* load_models leaves it when the model files are absent).
predict_stress_single(hr_value, threshold, u, noise) ==
    _simulate_prediction(hr_value, threshold, u, noise)

\* predict_stress_single with the models loaded, lines 55-98: model_out is
\* the probability stress_model.predict gave, or None where a step of the
\* try block raised, which line 97 turns into an error message.
predict_stress_loaded(hr_value, threshold, model_out) ==
    IF model_out = None
    THEN [result |-> None, error |-> Some("prediction error")]
    ELSE LET thr == IF threshold = None THEN default_threshold ELSE threshold[1]
             stress_prob == model_out[1]
             is_stress == stress_prob >= thr
         IN  [result |-> Some([hr |-> hr_value,
                               stress_probability |-> stress_prob,
                               is_stress |-> is_stress,
                               threshold |-> thr,
                               status |-> IF is_stress THEN "stress" ELSE "normal"]),
              error |-> None]

\* predict_stress_single, lines 49-98, with the engine's is_loaded and the
\* draws of the call.
predict_stress_single_on(is_loaded, hr_value, threshold, draw) ==
    IF ~is_loaded
    THEN predict_stress_single(hr_value, threshold, draw.u, draw.noise)
    ELSE predict_stress_loaded(hr_value, threshold, draw.model_out)

\* The entry of a failed input flagged as stress.
BatchEntry_FlagFailed(hr, threshold, single) ==
    IF single.result # None
    THEN single.result[1]
    ELSE [hr |-> hr, stress_probability |-> 0, is_stress |-> TRUE,
          threshold |-> default_threshold, status |-> "error"]

\* predict_stress_batch, lines 155-165: the entry appended for the input hr,
\* single being what predict_stress_single returned for it. A result is a
\* non-empty dict, hence true; threshold or default is the default for a
\* threshold of None or 0.
BatchEntry(hr, threshold, single) ==
    IF single.result # None
    THEN single.result[1]
    ELSE [hr |-> hr,
          stress_probability |-> 0,
          is_stress |-> FALSE,
          threshold |-> IF threshold = None \/ threshold = Some(0)
                        THEN default_threshold ELSE threshold[1],
          status |-> "error"]

\* predict_stress_batch, lines 148-167; singles are the pairs its calls of
\* predict_stress_single returned, kept beside the pair it returns.
predict_stress_batch(is_loaded, hr_values, threshold, draws) ==
    LET singles == [i \in DOMAIN hr_values |->
                       predict_stress_single_on(is_loaded, hr_values[i],
                                                threshold, draws[i])]
    IN  [singles |-> singles,
         results |-> [i \in DOMAIN hr_values |->
                         BatchEntry(hr_values[i], threshold, singles[i])],
         error |-> None]

\* ------------------------------------------------------------ dashboard
\* dashboard.py: the per-worker sample buffers of st.session_state.

max_data_points == 100

\* WORKERS.keys() in iteration order.
WorkerOrder == <<"worker_1", "worker_2", "worker_3", "worker_4">>

\* initialize_session_state: empty buffers, no alert.
NewSession ==
    [worker_data |-> [w \in WORKERS |-> <<>>],
     alert_states |-> [w \in WORKERS |-> FALSE]]

\* The dashboard has not been used.
BufIdle ==
    /\ session = NewSession
    /\ appended = [w \in WORKERS |-> <<>>]
    /\ passes = 0
    /\ uploads = 0

\* update_worker_data with the newest sample dropped when the buffer is
\* full: pop() instead of pop(0).
update_worker_data_PopNewest(st, worker_id, timestamp, hr, stress_prob, is_stress) ==
    LET data == st.worker_data[worker_id]
        kept == IF Len(data) >= max_data_points
                THEN SubSeq(data, 1, Len(data) - 1) ELSE data
        sample == [timestamp |-> timestamp, HR |-> hr,
                   stress_probability |-> stress_prob, is_stress |-> is_stress]
    IN  [worker_data |-> [st.worker_data EXCEPT ![worker_id] = Append(kept, sample)],
         alert_states |-> [st.alert_states EXCEPT ![worker_id] = is_stress]]

\* update_worker_data (lines 90-103): the session state after the call.
update_worker_data(st, worker_id, timestamp, hr, stress_prob, is_stress) ==
    LET data == st.worker_data[worker_id]
        kept == IF Len(data) >= max_data_points THEN Tail(data) ELSE data
        sample == [timestamp |-> timestamp, HR |-> hr,
                   stress_probability |-> stress_prob, is_stress |-> is_stress]
    IN  [worker_data |-> [st.worker_data EXCEPT ![worker_id] = Append(kept, sample)],
         alert_states |-> [st.alert_states EXCEPT ![worker_id] = is_stress]]

\* The heart rate a simulation pass draws (random.randint(50, 150)) and the
\* estimator's draws for it: the buffers do not depend on the values, one is
\* taken.
PassHr == HrFloor

PassResult == predict_stress_single(PassHr, Some(default_threshold), 0, 0).result[1]

\* Lines 373-392 (and 228-245): one pass of the running simulation at time
\* now, over the first n workers of WorkerOrder: each gets one sample.
RECURSIVE SimulationPass(_, _, _)
SimulationPass(st, now, n) ==
    IF n = 0 THEN st
    ELSE update_worker_data(SimulationPass(st, now, n - 1), WorkerOrder[n], now,
                            PassHr, PassResult.stress_probability,
                            PassResult.is_stress)

\* The session after the passes made at times lo..hi, one per second.
RECURSIVE PassesFrom(_, _, _)
PassesFrom(st, lo, hi) ==
    IF lo > hi THEN st
    ELSE IF lo = hi THEN SimulationPass(st, lo, Len(WorkerOrder))
    ELSE LET mid == (lo + hi) \div 2
             first == PassesFrom(st, lo, mid)
         IN  \* the first half is computed before the second is applied
             IF DOMAIN first = DOMAIN st
             THEN PassesFrom(first, mid + 1, hi) ELSE first

\* Row i of an uploaded table after process_uploaded_csv and
\* predict_from_dataframe: rows in ascending timestamp order.
CsvRow(i) ==
    LET r == predict_stress_single(30 + i, Some(default_threshold), 0, 0).result[1]
    IN  [timestamp |-> i, HR |-> 30 + i,
         stress_probability |-> r.stress_probability, is_stress |-> r.is_stress]

\* Lines 298-304: rows lo..hi are passed to update_worker_data in order.
RECURSIVE AppendRows(_, _, _, _)
AppendRows(st, worker_id, lo, hi) ==
    IF lo > hi THEN st
    ELSE IF lo = hi
    THEN update_worker_data(st, worker_id, CsvRow(lo).timestamp, CsvRow(lo).HR,
                            CsvRow(lo).stress_probability, CsvRow(lo).is_stress)
    ELSE LET mid == (lo + hi) \div 2
             first == AppendRows(st, worker_id, lo, mid)
         IN  \* the first half is computed before the second is applied
             IF DOMAIN first = DOMAIN st
             THEN AppendRows(first, worker_id, mid + 1, hi) ELSE first

\* Lines 296-304: the buffer is emptied, then the n rows of the table are
\* passed to update_worker_data in order.
UploadRows(st, worker_id, n) ==
    AppendRows([st EXCEPT !.worker_data[worker_id] = <<>>], worker_id, 1, n)

\* ------------------------------------------------------------ csv
\* dashboard.py: parse_timestamp and process_uploaded_csv. A table is its
\* set of column names and its rows; a timestamp cell is the text's form and
\* the instant it denotes, a parsed timestamp an instant and whether it
\* carries a time zone; an HR cell is of kind number, nan or text.

\* No table has been handed to process_uploaded_csv.
CsvIdle ==
    /\ uploaded_file = None
    /\ csv_return = None

required_columns == {"timestamp", "HR"}

timestamp_formats ==
    <<"%Y-%m-%d %H:%M:%S", "%Y/%m/%d %H:%M:%S", "%d/%m/%Y %H:%M:%S",
      "%Y-%m-%d %H:%M:%S.%f">>

\* Line 78: the range of heart rates kept.
CsvHrMin == 30
CsvHrMax == 200

\* pd.to_datetime(timestamp_str, format=fmt) succeeds.
MatchesFormat(cell, fmt) == cell.form = fmt

\* parse_timestamp: the first of the formats that matches gives the
\* timestamp, without a time zone; an empty cell (NaN) gives NaT at once;
\* the text no format matches goes to pd.to_datetime, which reads an ISO
\* text with a UTC offset as a timestamp with a time zone and fails on other
\* text. None stands for both None and NaT, which isna() does not tell apart.
RECURSIVE TryFormats(_, _)
TryFormats(cell, k) ==
    IF k > Len(timestamp_formats)
    THEN IF cell.form = "iso+offset"
         THEN Some([t |-> cell.t, aware |-> TRUE])
         ELSE None
    ELSE IF cell.form = "empty" THEN None
    ELSE IF MatchesFormat(cell, timestamp_formats[k])
         THEN Some([t |-> cell.t, aware |-> FALSE])
         ELSE TryFormats(cell, k + 1)

parse_timestamp(cell) == TryFormats(cell, 1)

\* The range test with the limits left out.
HrInRange_Exclusive(h) == h > CsvHrMin /\ h < CsvHrMax

\* Line 78: (df['HR'] >= 30) & (df['HR'] <= 200) on a number.
HrInRange(h) == h >= CsvHrMin /\ h <= CsvHrMax

IsText(hr_cell) == hr_cell.kind = "text"

\* Line 78 on a cell of a numeric column: NaN compares false.
HrKept(hr_cell) == hr_cell.kind = "number" /\ HrInRange(hr_cell.v)

\* The orders sort_values('timestamp') may leave the rows in: ascending,
\* rows of equal timestamp in either order (the default sort is not stable).
SortedOrders(rows) ==
    LET n == Len(rows)
        perms == {f \in [1..n -> 1..n] : \A i, j \in 1..n : i # j => f[i] # f[j]}
    IN  {[i \in 1..n |-> rows[f[i]]] : f \in
            {g \in perms : \A i, j \in 1..n :
                 i < j => rows[g[i]].timestamp[1].t <= rows[g[j]].timestamp[1].t}}

CsvError(msg) == [df |-> None, error |-> Some(msg)]

\* process_uploaded_csv, lines 61-88: the pairs it may return on a table.
\* The comparison of line 78 raises on a column read as text when a row is
\* left to compare, the sort of line 81 on timestamps with and without a time
\* zone; line 87 turns either into an error message.
process_uploaded_csv(file) ==
    IF required_columns \ file.columns # {}
    THEN {CsvError("missing columns")}
    ELSE
      LET parsed == [i \in DOMAIN file.rows |->
                        [file.rows[i] EXCEPT !.timestamp = parse_timestamp(@)]]
          dated == SelectSeq(parsed, LAMBDA r : r.timestamp # None)
          text_column == \E i \in DOMAIN file.rows : IsText(file.rows[i].HR)
      IN  IF text_column /\ dated # <<>>
          THEN {CsvError("processing error")}
          ELSE
            LET in_range == SelectSeq(dated, LAMBDA r : HrKept(r.HR))
                mixed == \E i, j \in DOMAIN in_range :
                             in_range[i].timestamp[1].aware
                                 # in_range[j].timestamp[1].aware
            IN  IF mixed
                THEN {CsvError("processing error")}
                ELSE {[df |-> Some(rows), error |-> None] :
                         rows \in SortedOrders(in_range)}

\* ------------------------------------------------------------ random
\* The random module's process-wide generator, which every random.random()
\* and random.randint() of data_simulator.py draws from.

\* The generator where its output is one of the inputs of the step.
RngIdle ==
    /\ rng_stream = <<>>
    /\ rng_pos = 0

\* ------------------------------------------------------------ loop
\* data_simulator.py: MultiWorkerSimulator.

\* MultiWorkerSimulator.__init__ (lines 76-79), its simulators apart.
LoopIdle ==
    /\ is_running = FALSE
    /\ data_callback = None
    /\ thread = None
    /\ threads = <<>>
    /\ ctl = "idle"
    /\ stop_returned = FALSE
    /\ delivered = <<>>
    /\ loop_ticks = 0

\* threading.Thread(target=self._simulation_loop).start(): a thread about to
\* test the loop condition. advanced and calls are history: the calls of
\* generate_next_hr per worker and of the callback in the current iteration,
\* and whether a callback was registered when the iteration began.
NewThread ==
    [pc |-> "while",
     i |-> 1,
     current_time |-> 0,
     worker_data |-> <<>>,
     advanced |-> [w \in WORKERS |-> 0],
     calls |-> 0,
     registered |-> FALSE]

\* Lines 114-120: the entry of worker w in the mapping (worker_name, which
\* no step changes, apart).
WorkerSample(sim, current_time) ==
    [timestamp |-> current_time,
     HR |-> sim.current_hr,
     is_stressed |-> sim.is_stressed,
     state |-> sim.current_state]

\* The callback called inside the for loop.
AfterWorker_CallInside(i) == "callback"

\* Lines 112-124: where the loop goes after the i-th worker of the for loop.
AfterWorker(i) == IF i < Len(WorkerOrder) THEN "for" ELSE "callback"

\* start_simulation that does not look at the flag.
MayStart_Always == TRUE

\* start_simulation, line 91: if not self.is_running.
MayStart == ~is_running

\* stop_simulation that does not join.
StopWaits_NoJoin == FALSE

\* stop_simulation, lines 100-101: whether the caller waits for the thread.
StopWaits == thread # None

\* ------------------------------------------------------------ Spec:
\* one simulator (generate_demo_csv_data, the single-worker test), ticked by
\* a caller at any pace.

Init ==
    /\ clock = 0
    /\ \E b \in hr_base_range : workers = [w \in {"worker_1"} |-> NewSimulator(b, clock)]
    /\ ticks_since = [w \in {"worker_1"} |-> 0]
    /\ EstIdle
    /\ BufIdle
    /\ LoopIdle
    /\ RngIdle
    /\ CsvIdle

TickStep ==
    /\ \E w \in Sims : Tick(w)
    /\ UNCHANGED <<csvVars, rngVars, clock, ticks_since, estVars, bufVars, loopVars>>

ClockStep ==
    /\ clock < MaxClock
    /\ clock' = clock + ClockJump
    /\ UNCHANGED <<csvVars, rngVars, workers, ticks_since, estVars, bufVars, loopVars>>

Next == TickStep \/ ClockStep

Spec == Init /\ [][Next]_vars

\* ------------------------------------------------------------ C1

\* C1: after any sequence of generate_next_hr ticks, whatever the regime and
\* the draws, the heart rate a simulator stores (which is the value the tick
\* returns) is an integer in [50,150].
C1_HrInRange ==
    \A w \in Sims :
        /\ workers[w].current_hr \in Int
        /\ workers[w].current_hr >= 50
        /\ workers[w].current_hr <= 150

\* A stress tick has pushed the heart rate above the stress range (by noise).
C1_Witness ==
    \E w \in Sims :
        /\ workers[w].is_stressed
        /\ workers[w].current_hr > HrStressMax

\* ------------------------------------------------------------ C4

\* Python's round(): to the nearest integer, ties to the even one; of n/10.
RoundTenths(n) ==
    LET f == n \div 10
        r == n - 10 * f
    IN  IF r < 5 THEN f
        ELSE IF r > 5 THEN f + 1
        ELSE IF f % 2 = 0 THEN f ELSE f + 1

\* C4 as stated: a rate-limited tick (|diff| > 10) moves the heart rate by
\* exactly round(0.3 * diff), whatever the sign of diff.
C4_RoundStep ==
    \A w \in Sims :
      \A trigger \in TriggerDraws(workers[w]) :
        \A d \in DurationDraws(trigger) :
          \A target_hr \in TargetDraws(workers[w], clock, trigger, d) :
            LET pre == workers[w].current_hr
                diff == target_hr - pre
                post == generate_next_hr(workers[w], clock, trigger, d, target_hr)
            IN  Abs(diff) > 10
                    => post.current_hr = pre + RoundTenths(3 * diff)

\* C4 amended: a rate-limited tick moves the heart rate by floor(0.3 * diff):
\* the sum current_hr + 0.3 * diff is truncated, so a positive step is
\* rounded down and a negative step is rounded up in magnitude; the result
\* is then limited to [50,150].
C4_FloorStep ==
    \A w \in Sims :
      \A trigger \in TriggerDraws(workers[w]) :
        \A d \in DurationDraws(trigger) :
          \A target_hr \in TargetDraws(workers[w], clock, trigger, d) :
            LET pre == workers[w].current_hr
                diff == target_hr - pre
                post == generate_next_hr(workers[w], clock, trigger, d, target_hr)
                moved == pre + ((3 * diff) \div 10)
            IN  Abs(diff) > 10
                    => post.current_hr =
                         (IF moved < 50 THEN 50
                          ELSE IF moved > 150 THEN 150 ELSE moved)

\* A normal-regime tick after a stress episode has left the heart rate above
\* every normal target: it was rate-limited with a negative diff.
C4_Witness ==
    \E w \in Sims :
        /\ ~workers[w].is_stressed
        /\ workers[w].state_duration > 0
        /\ workers[w].current_hr >
             workers[w].base_hr + NormalOffsetMax + NoiseLevel + RateLimit

\* ------------------------------------------------------------ C6

\* C6: state_duration changes only in a tick that moves the regime from
\* normal to stress, which assigns it a value of the configured range 5..20;
\* a tick that stays in normal, stays in stress or reverts to normal leaves
\* it unchanged.
C6_DurationFrame ==
    [][\A w \in Sims :
         IF workers[w].current_state = "normal"
            /\ workers'[w].current_state = "stress"
         THEN /\ workers'[w].state_duration >= 5
              /\ workers'[w].state_duration <= 20
         ELSE workers'[w].state_duration = workers[w].state_duration]_vars

\* A simulator back in the normal regime that still holds the duration
\* sampled for the stress episode it has left.
C6_Witness ==
    \E w \in Sims :
        /\ workers[w].current_state = "normal"
        /\ ~workers[w].is_stressed
        /\ workers[w].state_duration \in stress_duration
        /\ workers[w].state_start_time > 0

\* ------------------------------------------------------------ C13
\* C13: a tick whose noisy target differs from the pre-tick heart rate by at
\* most 10 in magnitude leaves the heart rate at that target, limited to
\* [50,150]; a tick that leaves it elsewhere had a difference above 10.
C13_SnapWithinLimit ==
    \A w \in Sims :
      \A trigger \in TriggerDraws(workers[w]) :
        \A d \in DurationDraws(trigger) :
          \A target_hr \in TargetDraws(workers[w], clock, trigger, d) :
            LET pre == workers[w].current_hr
                diff == target_hr - pre
                post == generate_next_hr(workers[w], clock, trigger, d, target_hr)
                limited == IF target_hr < 50 THEN 50
                           ELSE IF target_hr > 150 THEN 150 ELSE target_hr
            IN  /\ (diff <= 10 /\ diff >= -10) => post.current_hr = limited
                /\ post.current_hr # limited => (diff > 10 \/ diff < -10)

\* C13 witness: a simulator that has been advanced and one of whose next
\* ticks has a target exactly 10 away, which it reaches.
C13_Witness ==
    \E w \in Sims :
        /\ workers[w].current_hr # workers[w].base_hr
        /\ \E trigger \in TriggerDraws(workers[w]) :
             \E d \in DurationDraws(trigger) :
               \E target_hr \in TargetDraws(workers[w], clock, trigger, d) :
                 /\ target_hr - workers[w].current_hr = 10
                 /\ generate_next_hr(workers[w], clock, trigger, d,
                                     target_hr).current_hr = target_hr

\* ------------------------------------------------------------ C14
\* C14: a tick makes at most one regime transition: one that begins in
\* stress ends in normal with the start time reset, or in stress with the
\* episode's start time and duration untouched, never in a new episode; one
\* that begins in normal ends in stress with the start time set, or in normal
\* with the start time untouched; the target is drawn by the formula of the
\* regime the tick ends in, and is_stressed after the tick is
\* (current_state = stress).
C14_OneTransitionPerTick ==
    \A w \in Sims :
      /\ workers[w].is_stressed = (workers[w].current_state = "stress")
      /\ \A trigger \in TriggerDraws(workers[w]) :
           \A d \in DurationDraws(trigger) :
             \A target_hr \in TargetDraws(workers[w], clock, trigger, d) :
               LET pre == workers[w]
                   post == generate_next_hr(pre, clock, trigger, d, target_hr)
                   expired == clock - pre.state_start_time > pre.state_duration
                   normal_target ==
                       \E o \in (-5)..10 : \E n \in (-5)..5 :
                           target_hr = pre.base_hr + o + n
                   stress_target ==
                       \E t \in 90..130 : \E n \in (-5)..5 : target_hr = t + n
               IN  /\ post.is_stressed = (post.current_state = "stress")
                   /\ IF pre.current_state = "stress"
                      THEN IF expired
                           THEN /\ post.current_state = "normal"
                                /\ post.state_start_time = clock
                                /\ normal_target
                           ELSE /\ post.current_state = "stress"
                                /\ post.state_start_time = pre.state_start_time
                                /\ post.state_duration = pre.state_duration
                                /\ stress_target
                      ELSE IF post.current_state = "stress"
                           THEN /\ post.state_start_time = clock
                                /\ stress_target
                           ELSE /\ post.state_start_time = pre.state_start_time
                                /\ normal_target

\* C14 witness: a simulator whose stress episode has run out: its next tick
\* reverts it, and every tick it can make ends in the normal regime.
C14_Witness ==
    \E w \in Sims :
        /\ workers[w].current_state = "stress"
        /\ workers[w].is_stressed
        /\ clock - workers[w].state_start_time > workers[w].state_duration
        /\ \A target_hr \in TargetDraws(workers[w], clock, FALSE, 0) :
             generate_next_hr(workers[w], clock, FALSE, 0,
                              target_hr).current_state = "normal"

\* ------------------------------------------------------------ C16
\* C16: under the default configuration the heart rate after a tick lies
\* between the heart rate before it and the noisy target, both included; every
\* heart rate a simulator holds lies in [60,135]; and the limit to [50,150]
\* at the end of the tick changes nothing.
C16_BetweenPreAndTarget ==
    \A w \in Sims :
      /\ workers[w].current_hr >= 60
      /\ workers[w].current_hr <= 135
      /\ \A trigger \in TriggerDraws(workers[w]) :
           \A d \in DurationDraws(trigger) :
             \A target_hr \in TargetDraws(workers[w], clock, trigger, d) :
               LET pre == workers[w].current_hr
                   diff == target_hr - pre
                   post == generate_next_hr(workers[w], clock, trigger, d,
                                            target_hr).current_hr
                   unlimited == IF diff > 10 \/ diff < -10
                                THEN IntTenths(10 * pre + 3 * diff)
                                ELSE target_hr
               IN  /\ post >= Min2(pre, target_hr)
                   /\ post <= Max2(pre, target_hr)
                   /\ post >= 60
                   /\ post <= 135
                   /\ post = unlimited

\* C16 witness: a simulator that reached the highest heart rate, the top of
\* the stress range plus the noise level.
C16_Witness ==
    \E w \in Sims :
        /\ workers[w].is_stressed
        /\ workers[w].current_hr = 135

\* ------------------------------------------------------------ SpecTicks:
\* one simulator whose ticks are counted, to state durations in ticks. The
\* caller issues ticks back to back or any number of seconds apart.

\* ticks_since is counted up to the largest duration plus one.
TickCap == StressDurationMax + 1

SetMin(S) == CHOOSE x \in S : \A y \in S : x <= y

SetMax(S) == CHOOSE x \in S : \A y \in S : x >= y

\* The lowest and the highest noisy target of a tick.
ExtremeTargets(sim, now, trigger, d) ==
    {SetMin(TargetDraws(sim, now, trigger, d)),
     SetMax(TargetDraws(sim, now, trigger, d))}

CountedTick ==
    /\ \E w \in Sims :
         \E trigger \in TriggerDraws(workers[w]) :
           \E d \in DurationDraws(trigger) :
             \E target_hr \in ExtremeTargets(workers[w], clock, trigger, d) :
               /\ workers' = AdvanceSimulator(workers, w, clock, trigger, d, target_hr)
               /\ ticks_since' = [ticks_since EXCEPT
                     ![w] = IF workers[w].current_state = "normal"
                               /\ workers'[w].current_state = "stress"
                            THEN 0
                            ELSE Min2(@ + 1, TickCap)]
    /\ UNCHANGED <<csvVars, rngVars, clock, estVars, bufVars, loopVars>>

SecondStep ==
    /\ clock < MaxSeconds
    /\ clock' = clock + 1
    /\ UNCHANGED <<csvVars, rngVars, workers, ticks_since, estVars, bufVars, loopVars>>

InitTicks ==
    /\ clock = 0
    /\ workers = [w \in {"worker_1"} |-> NewSimulator(HrBaseMin, clock)]
    /\ ticks_since = [w \in {"worker_1"} |-> 0]
    /\ EstIdle
    /\ BufIdle
    /\ LoopIdle
    /\ RngIdle
    /\ CsvIdle

NextTicks == CountedTick \/ SecondStep

SpecTicks == InitTicks /\ [][NextTicks]_vars

\* ------------------------------------------------------------ C3

\* C3: a simulator that a tick has moved to the stress regime stays there for
\* at least the sampled duration, counted in ticks since that transition,
\* before a tick reverts it, whatever the pace of the ticks: the reverting
\* tick is at least the state_duration-th tick after the transition.
C3_StressLastsDurationTicks ==
    [][\A w \in Sims :
         (workers[w].current_state = "stress"
            /\ workers'[w].current_state = "normal")
           => ticks_since[w] + 1 >= workers[w].state_duration]_vars

\* ------------------------------------------------------------ C5

\* C5: a simulator in the stress regime reverts on the first tick at which
\* the ticks elapsed since the transition exceed the sampled duration: after
\* any tick, a simulator still in stress has seen at most state_duration
\* ticks since the transition (so never more than 20).
C5_RevertsWhenTicksExceed ==
    \A w \in Sims :
        workers[w].current_state = "stress"
            => /\ ticks_since[w] <= workers[w].state_duration
               /\ ticks_since[w] <= 20

\* ------------------------------------------------------------ SpecEst:
\* one call of predict_stress_single, any heart rate of [50,150], any
\* threshold of [0,1] (or none given), any draws.

EstHrValues == 50..150

Thresholds == {Some(t) : t \in {x \in 0..1000 : x % ThresholdStep = 0}} \cup {None}

UniformDraws(hr_value) == {u \in 0..UniformHigh(hr_value) : u % JitterStep = 0}

GaussDraws == {g \in (-GaussMax)..GaussMax : g % GaussStep = 0}

InitEst ==
    /\ clock = 0
    /\ workers = [w \in {"worker_1"} |-> NewSimulator(HrBaseMin, clock)]
    /\ ticks_since = [w \in {"worker_1"} |-> 0]
    /\ est_call \in {Some(c) : c \in [hr_value : EstHrValues, threshold : Thresholds]}
    /\ est_return = None
    /\ BufIdle
    /\ LoopIdle
    /\ RngIdle
    /\ CsvIdle

Predict ==
    /\ est_return = None
    /\ \E u \in UniformDraws(est_call[1].hr_value) : \E noise \in GaussDraws :
         est_return' = Some(predict_stress_single(est_call[1].hr_value,
                                                  est_call[1].threshold, u, noise))
    /\ UNCHANGED <<csvVars, rngVars, simVars, est_call, bufVars, loopVars>>

NextEst == Predict

SpecEst == InitEst /\ [][NextEst]_vars

\* ------------------------------------------------------------ C2

\* C2: for every integer hr in [50,150], every threshold in [0,1] and every
\* value of the draws, the simulated estimator returns a stress_probability
\* in [0,1] and an is_stress flag equal to (stress_probability >= threshold).
C2_ProbabilityAndFlag ==
    est_return # None =>
        LET ret == est_return[1]
            threshold == IF est_call[1].threshold = None
                         THEN 350 ELSE est_call[1].threshold[1]
        IN  /\ ret.result # None
            /\ ret.result[1].stress_probability >= 0
            /\ ret.result[1].stress_probability <= 1000
            /\ ret.result[1].is_stress
                 <=> ret.result[1].stress_probability >= threshold

\* A call whose probability was cut down to 1 and meets the threshold 1.
C2_Witness ==
    /\ est_return # None
    /\ est_call[1].threshold = Some(1000)
    /\ est_return[1].result[1].stress_probability = 1000
    /\ est_return[1].result[1].is_stress

\* ------------------------------------------------------------ SpecBuf:
\* the dashboard's buffers under simulation passes and CSV uploads, starting
\* empty or after the passes that fill a buffer (nearly) up.

PassSample(now) ==
    [timestamp |-> now, HR |-> PassHr,
     stress_probability |-> PassResult.stress_probability,
     is_stress |-> PassResult.is_stress]

InitBuf ==
    /\ \E k \in {0, max_data_points - 1, max_data_points} :
         /\ clock = k
         /\ session = PassesFrom(NewSession, 1, k)
         /\ appended = [w \in WORKERS |-> [i \in 1..k |-> PassSample(i)]]
    /\ passes = 0
    /\ uploads = 0
    /\ workers = [w \in {"worker_1"} |-> NewSimulator(HrBaseMin, 0)]
    /\ ticks_since = [w \in {"worker_1"} |-> 0]
    /\ EstIdle
    /\ LoopIdle
    /\ RngIdle
    /\ CsvIdle

\* One rerun of the script while the simulation runs, update_interval (one
\* second) after the last.
Pass ==
    /\ passes < MaxPasses
    /\ passes' = passes + 1
    /\ clock' = clock + 1
    /\ session' = SimulationPass(session, clock', Len(WorkerOrder))
    /\ appended' = [w \in WORKERS |-> Append(appended[w], PassSample(clock'))]
    /\ UNCHANGED <<csvVars, rngVars, workers, ticks_since, estVars, uploads, loopVars>>

\* The row counts of the uploaded tables.
RowCounts == {0, 1, max_data_points, max_data_points + 1}

\* A new CSV file of n rows is uploaded for worker_id.
Upload ==
    /\ uploads < MaxUploads
    /\ uploads' = uploads + 1
    /\ \E worker_id \in WORKERS : \E n \in RowCounts :
         /\ session' = UploadRows(session, worker_id, n)
         /\ appended' = [appended EXCEPT ![worker_id] = [i \in 1..n |-> CsvRow(i)]]
    /\ UNCHANGED <<csvVars, rngVars, simVars, estVars, passes, loopVars>>

NextBuf == Pass \/ Upload

SpecBuf == InitBuf /\ [][NextBuf]_vars

\* ------------------------------------------------------------ C7

\* The last n elements of sequence q (all of it when it is shorter).
LastN(q, n) == SubSeq(q, Max2(1, Len(q) - n + 1), Len(q))

\* C7: after any sequence of update_worker_data calls, from the simulation
\* path and from the CSV upload path (which first empties the buffer), each
\* worker's buffer holds at most 100 samples and they are exactly the most
\* recently appended samples for that worker, in insertion order.
C7_BufferIsNewestSamples ==
    \A w \in WORKERS :
        /\ Len(session.worker_data[w]) <= 100
        /\ session.worker_data[w] = LastN(appended[w], 100)

\* A full buffer that has evicted its oldest sample.
C7_Witness ==
    \E w \in WORKERS :
        /\ Len(appended[w]) > 100
        /\ Len(session.worker_data[w]) = 100
        /\ session.worker_data[w][1] = appended[w][Len(appended[w]) - 99]
        /\ session.worker_data[w][1] # appended[w][1]

\* ------------------------------------------------------------ SpecLoop:
\* a MultiWorkerSimulator driven by one controlling thread, which registers
\* the callback, starts and stops the simulation; the loop threads run
\* _simulation_loop. The callback returns.

InitLoop ==
    /\ clock = 0
    /\ workers = [w \in WORKERS |-> NewSimulator(HrBaseMin, clock)]
    /\ ticks_since = [w \in WORKERS |-> 0]
    /\ EstIdle
    /\ BufIdle
    /\ LoopIdle
    /\ RngIdle
    /\ CsvIdle

set_data_callback ==
    /\ ctl = "idle"
    /\ data_callback = None
    /\ data_callback' = Some("data_callback")
    /\ UNCHANGED <<csvVars, rngVars, simVars, estVars, bufVars, is_running, thread, threads, ctl,
                   stop_returned, delivered, loop_ticks>>

start_simulation ==
    /\ ctl = "idle"
    /\ Len(threads) < MaxStarts
    /\ IF MayStart
       THEN /\ is_running' = TRUE
            /\ threads' = Append(threads, NewThread)
            /\ thread' = Some(Len(threads) + 1)
       ELSE UNCHANGED <<is_running, threads, thread>>
    /\ stop_returned' = FALSE
    /\ UNCHANGED <<csvVars, rngVars, simVars, estVars, bufVars, data_callback, ctl, delivered,
                   loop_ticks>>

\* stop_simulation up to thread.join() (lines 99-101).
stop_simulation ==
    /\ ctl = "idle"
    /\ is_running' = FALSE
    /\ ctl' = IF StopWaits THEN "join" ELSE "idle"
    /\ stop_returned' = ~StopWaits
    /\ UNCHANGED <<csvVars, rngVars, simVars, estVars, bufVars, data_callback, thread, threads,
                   delivered, loop_ticks>>

\* thread.join() returns once the thread has ended, and stop_simulation with
\* it (lines 101-102).
JoinReturns ==
    /\ ctl = "join"
    /\ threads[thread[1]].pc = "ended"
    /\ ctl' = "idle"
    /\ stop_returned' = TRUE
    /\ UNCHANGED <<csvVars, rngVars, simVars, estVars, bufVars, is_running, data_callback, thread,
                   threads, delivered, loop_ticks>>

\* Line 106: the loop condition, read once per iteration.
LoopCheck(t) ==
    /\ threads[t].pc = "while"
    /\ IF is_running
       THEN /\ loop_ticks < MaxLoopTicks
            /\ loop_ticks' = loop_ticks + 1
            /\ threads' = [threads EXCEPT ![t] =
                  [@ EXCEPT !.pc = "for", !.i = 1, !.current_time = clock,
                            !.worker_data = <<>>,
                            !.advanced = [w \in WORKERS |-> 0], !.calls = 0,
                            !.registered = (data_callback # None)]]
       ELSE /\ threads' = [threads EXCEPT ![t].pc = "ended"]
            /\ UNCHANGED loop_ticks
    /\ UNCHANGED <<csvVars, rngVars, simVars, estVars, bufVars, is_running, data_callback, thread,
                   ctl, stop_returned, delivered>>

\* Lines 112-120: one iteration of the for loop.
LoopGenerate(t) ==
    /\ threads[t].pc = "for"
    /\ LET w == WorkerOrder[threads[t].i]
       IN  \E trigger \in TriggerDraws(workers[w]) :
             LET d == SetMin(DurationDraws(trigger))
                 target_hr == SetMin(TargetDraws(workers[w], clock, trigger, d))
             IN  /\ workers' = AdvanceSimulator(workers, w, clock, trigger, d, target_hr)
                 /\ threads' = [threads EXCEPT ![t] =
                       [@ EXCEPT !.pc = AfterWorker(threads[t].i),
                                 !.i = @ + 1,
                                 !.worker_data = @ @@
                                     (w :> WorkerSample(workers'[w], threads[t].current_time)),
                                 !.advanced[w] = @ + 1]]
    /\ UNCHANGED <<csvVars, rngVars, clock, ticks_since, estVars, bufVars, is_running,
                   data_callback, thread, ctl, stop_returned, delivered,
                   loop_ticks>>

\* Lines 123-124: the callback, if one is registered, is called and returns.
LoopCallback(t) ==
    /\ threads[t].pc = "callback"
    /\ IF data_callback # None
       THEN /\ delivered' = Append(delivered, threads[t].worker_data)
            /\ threads' = [threads EXCEPT ![t] =
                  [@ EXCEPT !.pc = "sleep", !.calls = @ + 1]]
       ELSE /\ threads' = [threads EXCEPT ![t].pc = "sleep"]
            /\ UNCHANGED delivered
    /\ UNCHANGED <<csvVars, rngVars, simVars, estVars, bufVars, is_running, data_callback, thread,
                   ctl, stop_returned, loop_ticks>>

\* Line 127: time.sleep(1.0).
LoopSleep(t) ==
    /\ threads[t].pc = "sleep"
    /\ clock' = clock + 1
    /\ threads' = [threads EXCEPT ![t].pc = "while"]
    /\ UNCHANGED <<csvVars, rngVars, workers, ticks_since, estVars, bufVars, is_running,
                   data_callback, thread, ctl, stop_returned, delivered,
                   loop_ticks>>

ThreadStep(t) ==
    /\ t \in DOMAIN threads
    /\ LoopCheck(t) \/ LoopGenerate(t) \/ LoopCallback(t) \/ LoopSleep(t)

NextLoop ==
    \/ set_data_callback
    \/ start_simulation
    \/ stop_simulation
    \/ JoinReturns
    \/ \E t \in DOMAIN threads : LoopCheck(t)
    \/ \E t \in DOMAIN threads : LoopGenerate(t)
    \/ \E t \in DOMAIN threads : LoopCallback(t)
    \/ \E t \in DOMAIN threads : LoopSleep(t)

\* A started thread is scheduled; sleep and the callback return.
SpecLoop ==
    InitLoop /\ [][NextLoop]_vars /\ \A t \in 1..MaxStarts : WF_vars(ThreadStep(t))

\* ------------------------------------------------------------ C8
\* C8: every iteration of the loop advances each worker's simulator exactly
\* once and then, a callback being registered, calls it exactly once with a
\* mapping holding the sample of every configured worker; the callback never
\* gets a partial mapping and is never called twice in an iteration.
C8_TickAdvancesAllThenCallsOnce ==
    /\ \A k \in DOMAIN delivered : DOMAIN delivered[k] = WORKERS
    /\ \A t \in DOMAIN threads :
         LET th == threads[t]
             all_once == \A w \in WORKERS : th.advanced[w] = 1
         IN  /\ th.calls <= 1
             /\ \A w \in WORKERS : th.advanced[w] <= 1
             /\ th.pc = "callback" => all_once /\ th.calls = 0
             /\ th.calls = 1 => all_once
             /\ th.pc = "sleep" =>
                  /\ all_once
                  /\ th.registered => th.calls = 1
                  /\ th.calls = 1 =>
                       /\ delivered # <<>>
                       /\ \A w \in WORKERS :
                            delivered[Len(delivered)][w] =
                                WorkerSample(workers[w], th.current_time)

\* C8 witness: an iteration has ended with the callback called once, on the
\* samples of the four workers.
C8_Witness ==
    \E t \in DOMAIN threads :
        /\ threads[t].pc = "sleep"
        /\ threads[t].registered
        /\ threads[t].calls = 1
        /\ Len(delivered) >= 1
        /\ \A w \in WORKERS : threads[t].advanced[w] = 1

\* ------------------------------------------------------------ C9
\* C9: the loop ends only where it reads the running flag, at the top of an
\* iteration, so an iteration in progress runs to its sleep, callback
\* included; once stop_simulation is waiting for the thread the thread
\* eventually ends; and once stop_simulation has returned every loop thread
\* has ended, no simulator is advanced and the callback is not called.
C9_CooperativeCancellation ==
    /\ [][\A t \in DOMAIN threads :
            /\ (threads[t].pc # "ended" /\ threads'[t].pc = "ended")
                   => (threads[t].pc = "while" /\ ~is_running)
            /\ threads[t].pc = "for" => threads'[t].pc \in {"for", "callback"}
            /\ threads[t].pc = "callback" => threads'[t].pc \in {"callback", "sleep"}]_vars
    /\ [](stop_returned => \A t \in DOMAIN threads : threads[t].pc = "ended")
    /\ [][stop_returned => (workers' = workers /\ delivered' = delivered)]_vars
    /\ (ctl = "join") ~> (\A t \in DOMAIN threads : threads[t].pc = "ended")

\* C9 witness: stop_simulation has returned after a loop that ran an
\* iteration and called the callback, and the loop thread has ended.
C9_Witness ==
    /\ stop_returned
    /\ thread # None
    /\ threads[thread[1]].pc = "ended"
    /\ loop_ticks >= 1
    /\ Len(delivered) >= 1

\* ------------------------------------------------------------ C15
\* C15: at most one loop thread is alive at any time; no step taken while the
\* simulation is running starts a thread; and a thread is started only when
\* every thread started before has ended, so only one loop advances the
\* simulators.
C15_AtMostOneLoopThread ==
    /\ [](Cardinality({t \in DOMAIN threads : threads[t].pc # "ended"}) <= 1)
    /\ [][is_running => Len(threads') = Len(threads)]_vars
    /\ [][Len(threads') > Len(threads)
            => \A t \in DOMAIN threads : threads[t].pc = "ended"]_vars
    /\ [][workers' # workers
            => \E t \in DOMAIN threads :
                 /\ threads[t].pc = "for"
                 /\ \A u \in DOMAIN threads \ {t} : threads[u].pc = "ended"]_vars

\* C15 witness: after a stop, a second start has a second loop in its for
\* loop, the first loop thread having ended after an iteration of its own.
C15_Witness ==
    /\ Len(threads) = 2
    /\ threads[1].pc = "ended"
    /\ threads[2].pc = "for"
    /\ loop_ticks = 2
    /\ is_running

\* ------------------------------------------------------------ SpecRng:
\* the simulators advanced in any order by a caller, their draws taken from
\* the process-wide generator seeded once.

RawValues == {r \in 0..999 : r % RawStep = 0}

\* The raw value the generator gives at position pos.
Raw(pos) == rng_stream[(pos % StreamLen) + 1]

\* random.randint(a, b) on the raw value r.
RandInt(a, b, r) == a + (r * (b - a + 1)) \div 1000

\* The draws of one generate_next_hr on sim, the generator at pos: lines 35,
\* 38, 48 or 52, and 56, in the order of execution.
SeededInputs(sim, now, pos) ==
    LET normal == sim.current_state = "normal"
        trigger == normal /\ Raw(pos) < StressProbability
        p1 == IF normal THEN pos + 1 ELSE pos
        d == IF trigger THEN RandInt(StressDurationMin, StressDurationMax, Raw(p1)) ELSE 0
        p2 == IF trigger THEN p1 + 1 ELSE p1
        regime == NextRegime(sim, now, trigger, d)
        drawn == IF regime.current_state = "normal"
                 THEN sim.base_hr + RandInt(NormalOffsetMin, NormalOffsetMax, Raw(p2))
                 ELSE RandInt(HrStressMin, HrStressMax, Raw(p2))
        noise == RandInt(-NoiseLevel, NoiseLevel, Raw(p2 + 1))
    IN  [trigger |-> trigger, d |-> d, target_hr |-> drawn + noise, pos |-> p2 + 2]

\* generate_next_hr on worker w's simulator, the generator at pos.
SeededAdvance(ws, pos, now, w) ==
    LET in == SeededInputs(ws[w], now, pos)
    IN  [ws |-> AdvanceSimulator(ws, w, now, in.trigger, in.d, in.target_hr),
         pos |-> in.pos]

InitRng ==
    /\ clock = 0
    /\ workers = [w \in WORKERS |-> NewSimulator(HrBaseMin, clock)]
    /\ ticks_since = [w \in WORKERS |-> 0]
    /\ EstIdle
    /\ BufIdle
    /\ LoopIdle
    /\ CsvIdle
    /\ rng_stream \in [1..StreamLen -> RawValues]
    /\ rng_pos = 0

SeededTick ==
    /\ rng_pos < MaxDraws
    /\ \E w \in WORKERS :
         LET after == SeededAdvance(workers, rng_pos, clock, w)
         IN  /\ workers' = after.ws
             /\ rng_pos' = after.pos
    /\ UNCHANGED <<csvVars, clock, ticks_since, estVars, bufVars, loopVars, rng_stream>>

NextRng == SeededTick

SpecRng == InitRng /\ [][NextRng]_vars

\* ------------------------------------------------------------ C10
\* C10 as stated: the value a worker's simulator produces next is the same
\* whether or not another worker's simulator is advanced first.
C10_OrderIndependent ==
    \A w1 \in WORKERS : \A w2 \in WORKERS \ {w1} :
        LET direct == SeededAdvance(workers, rng_pos, clock, w1)
            other == SeededAdvance(workers, rng_pos, clock, w2)
            later == SeededAdvance(other.ws, other.pos, clock, w1)
        IN  later.ws[w1] = direct.ws[w1]

\* C10 amended: advancing one worker's simulator leaves the six fields of
\* every other worker's simulator unchanged, and a simulator given the same
\* draws produces the same values whether or not another worker's simulator
\* was advanced first; what the simulators share is the generator.
C10_FrameGivenDraws ==
    \A w1 \in WORKERS : \A w2 \in WORKERS \ {w1} :
        LET in == SeededInputs(workers[w1], clock, rng_pos)
            other == SeededAdvance(workers, rng_pos, clock, w2)
        IN  /\ other.ws[w1] = workers[w1]
            /\ AdvanceSimulator(other.ws, w1, clock, in.trigger, in.d, in.target_hr)[w1]
                 = AdvanceSimulator(workers, w1, clock, in.trigger, in.d, in.target_hr)[w1]
            /\ other.pos > rng_pos

\* C10 witness: one worker's simulator has been advanced into stress while
\* another's is as constructed.
C10_Witness ==
    /\ rng_pos > 0
    /\ \E w1 \in WORKERS : \E w2 \in WORKERS \ {w1} :
         /\ workers[w1].current_state = "stress"
         /\ workers[w2] = NewSimulator(HrBaseMin, 0)

\* ------------------------------------------------------------ SpecCsv:
\* one call of process_uploaded_csv on an uploaded table.

TimestampForms ==
    {timestamp_formats[k] : k \in DOMAIN timestamp_formats} \cup {"iso+offset"}

TimestampCells ==
    [form : TimestampForms, t : 1..MaxStamp]
        \cup {[form |-> "text", t |-> 0], [form |-> "empty", t |-> 0]}

HrCells ==
    {[kind |-> "number", v |-> h] :
        h \in {CsvHrMin - 1, CsvHrMin, CsvHrMax, CsvHrMax + 1}}
        \cup {[kind |-> "nan", v |-> 0], [kind |-> "text", v |-> 0]}

CsvRows == [timestamp : TimestampCells, HR : HrCells]

RowSeqs == UNION {[1..n -> CsvRows] : n \in 0..MaxRows}

\* A table with its required columns, or one lacking some of them (whose rows
\* play no part).
Tables ==
    {[columns |-> required_columns, rows |-> rows] : rows \in RowSeqs}
        \cup {[columns |-> cols, rows |-> <<>>] :
                 cols \in (SUBSET required_columns) \ {required_columns}}

InitCsv ==
    /\ clock = 0
    /\ workers = [w \in {"worker_1"} |-> NewSimulator(HrBaseMin, clock)]
    /\ ticks_since = [w \in {"worker_1"} |-> 0]
    /\ EstIdle
    /\ BufIdle
    /\ LoopIdle
    /\ RngIdle
    /\ uploaded_file \in {Some(f) : f \in Tables}
    /\ csv_return = None

ProcessUpload ==
    /\ csv_return = None
    /\ \E out \in process_uploaded_csv(uploaded_file[1]) :
         csv_return' = Some(out)
    /\ UNCHANGED <<simVars, estVars, bufVars, loopVars, rngVars, uploaded_file>>

NextCsv == ProcessUpload

SpecCsv == InitCsv /\ [][NextCsv]_vars

\* ------------------------------------------------------------ C11
\* The number of times x occurs in the sequence q.
Count(q, x) == Cardinality({i \in DOMAIN q : q[i] = x})

\* The row with its timestamp parsed.
ParsedRow(r) == [r EXCEPT !.timestamp = parse_timestamp(@)]

\* The rows whose timestamp parses and whose HR is a number of [30,200].
ValidRows(rows) ==
    SelectSeq([i \in DOMAIN rows |-> ParsedRow(rows[i])],
              LAMBDA r : /\ r.timestamp # None
                         /\ r.HR.kind = "number"
                         /\ r.HR.v >= 30
                         /\ r.HR.v <= 200)

\* rows are the valid rows of the table, each as often as there, ascending.
IsValidRowsSorted(rows, file) ==
    /\ \A r \in [timestamp : {parse_timestamp(c) : c \in TimestampCells}, HR : HrCells] :
         Count(rows, r) = Count(ValidRows(file.rows), r)
    /\ \A i, j \in DOMAIN rows :
         i < j => rows[i].timestamp[1].t <= rows[j].timestamp[1].t

\* C11 as stated: a table with both columns gives exactly its valid rows in
\* ascending order of timestamp, a table lacking a column gives (None, error).
C11_ValidRowsSorted ==
    csv_return # None =>
        LET file == uploaded_file[1]
            ret == csv_return[1]
        IN  IF required_columns \subseteq file.columns
            THEN /\ ret.df # None
                 /\ ret.error = None
                 /\ IsValidRowsSorted(ret.df[1], file)
            ELSE ret.df = None /\ ret.error # None

\* The HR column was read as text and a row with a timestamp is left to
\* compare.
HrColumnRaises(file) ==
    /\ \E i \in DOMAIN file.rows : file.rows[i].HR.kind = "text"
    /\ \E i \in DOMAIN file.rows : parse_timestamp(file.rows[i].timestamp) # None

\* Among the valid rows are timestamps with and without a time zone.
MixedZones(file) ==
    \E i, j \in DOMAIN ValidRows(file.rows) :
        ValidRows(file.rows)[i].timestamp[1].aware
            # ValidRows(file.rows)[j].timestamp[1].aware

\* What the code does where C11 fails: only a table with both columns whose
\* HR column is numeric and whose valid rows do not mix timestamps with and
\* without a time zone gives its valid rows in ascending order of timestamp;
\* any other table gives (None, error).
C11_ValidRowsSortedOrError ==
    csv_return # None =>
        LET file == uploaded_file[1]
            ret == csv_return[1]
        IN  IF /\ required_columns \subseteq file.columns
               /\ ~HrColumnRaises(file)
               /\ ~MixedZones(file)
            THEN /\ ret.df # None
                 /\ ret.error = None
                 /\ IsValidRowsSorted(ret.df[1], file)
            ELSE ret.df = None /\ ret.error # None

\* The case C11 gets right: a table of two rows given out of order, with HR on
\* the limits 30 and 200, was returned whole and in order.
C11_Witness ==
    /\ csv_return # None
    /\ csv_return[1].df # None
    /\ Len(uploaded_file[1].rows) = 2
    /\ Len(csv_return[1].df[1]) = 2
    /\ uploaded_file[1].rows[1].timestamp.t > uploaded_file[1].rows[2].timestamp.t
    /\ \A i \in 1..2 : uploaded_file[1].rows[i].HR.kind = "number"
    /\ {uploaded_file[1].rows[i].HR.v : i \in 1..2} = {30, 200}

\* ------------------------------------------------------------ SpecBatch:
\* one call of predict_stress_batch, the models loaded or not, on a list of
\* heart rates, with any threshold or none.

BatchHrValues == {HrFloor, HrBaseMin, HrStressMax, HrCeil}

BatchInputs == UNION {[1..n -> BatchHrValues] : n \in 0..MaxBatch}

\* What the loaded models may give: an exception, or a probability.
ModelOuts == {None} \cup {Some(p) : p \in {0, default_threshold, 1000}}

\* The draws of one call of predict_stress_single.
SingleDraws(is_loaded, hr_value) ==
    IF is_loaded
    THEN [u : {0}, noise : {0}, model_out : ModelOuts]
    ELSE [u : {0, UniformHigh(hr_value)}, noise : {-GaussMax, GaussMax},
          model_out : {None}]

InitBatch ==
    /\ clock = 0
    /\ workers = [w \in {"worker_1"} |-> NewSimulator(HrBaseMin, clock)]
    /\ ticks_since = [w \in {"worker_1"} |-> 0]
    /\ est_call \in {Some(c) : c \in [is_loaded : BOOLEAN,
                                      hr_values : BatchInputs,
                                      threshold : Thresholds]}
    /\ est_return = None
    /\ BufIdle
    /\ LoopIdle
    /\ RngIdle
    /\ CsvIdle

PredictBatch ==
    /\ est_return = None
    /\ LET call == est_call[1]
       IN  \E draws \in [DOMAIN call.hr_values ->
                            UNION {SingleDraws(call.is_loaded, h) : h \in BatchHrValues}] :
             /\ \A i \in DOMAIN call.hr_values :
                  draws[i] \in SingleDraws(call.is_loaded, call.hr_values[i])
             /\ est_return' = Some(predict_stress_batch(call.is_loaded, call.hr_values,
                                                        call.threshold, draws))
    /\ UNCHANGED <<csvVars, rngVars, simVars, est_call, bufVars, loopVars>>

NextBatch == PredictBatch

SpecBatch == InitBatch /\ [][NextBatch]_vars

\* ------------------------------------------------------------ C12
\* C12: every call of predict_stress_single returns a pair of which exactly
\* one component is None; predict_stress_batch returns one entry per input,
\* in the order of the inputs, the entry of an input whose single prediction
\* failed having status error, stress_probability 0 and is_stress False, and
\* no error of its own.
C12_PairsAndBatchEntries ==
    est_return # None =>
        LET call == est_call[1]
            ret == est_return[1]
        IN  /\ DOMAIN ret.singles = DOMAIN call.hr_values
            /\ \A i \in DOMAIN ret.singles :
                 (ret.singles[i].result = None) # (ret.singles[i].error = None)
            /\ ret.error = None
            /\ Len(ret.results) = Len(call.hr_values)
            /\ \A i \in DOMAIN call.hr_values :
                 /\ ret.results[i].hr = call.hr_values[i]
                 /\ IF ret.singles[i].result = None
                    THEN /\ ret.results[i].status = "error"
                         /\ ret.results[i].stress_probability = 0
                         /\ ret.results[i].is_stress = FALSE
                    ELSE ret.results[i] = ret.singles[i].result[1]

\* C12 witness: a batch of two inputs, the first of which failed and the
\* second of which was predicted.
C12_Witness ==
    /\ est_return # None
    /\ Len(est_call[1].hr_values) = 2
    /\ est_return[1].singles[1].result = None
    /\ est_return[1].results[1].status = "error"
    /\ est_return[1].singles[2].result # None
    /\ est_return[1].results[2].status = "stress"

====
